---- MODULE Spec2Model ----
(***************************************************************************)
(* A model of energyplus_wrapper:                                          *)
(*   - env_manager.ensure_eplus_root  (specification Spec)                 *)
(*   - utils.process_eplus_time_series (specification SpecCsv)             *)
(*   - utils.process_eplus_html_report (specification SpecHtml)            *)
(* Strings whose content matters (names, versions, content types, file     *)
(* bytes) are sequences of characters, so that str.replace, substring      *)
(* tests, lower() and decoding are computed and not assumed.               *)
(***************************************************************************)
EXTENDS Integers, Sequences, FiniteSets, TLC

VARIABLES
    \* ---- env_manager: the machine
    platform,      \* platform.system()
    folderExists,  \* eplus_folder exists on disk
    dir,           \* expected_eplus_folder: [exists, files]
    dir0,          \* expected_eplus_folder as it was before any call
    cacheScript,   \* installer_cache / filename exists
    holders,       \* processes holding InterProcessLock(eplus_folder / ".lock")
    owner,         \* the process that last entered the with block of the lock
    \* ---- env_manager: one entry per calling process
    pc,            \* position in ensure_eplus_root
    args,          \* [url, cache] of the current call
    result,        \* how the current call ended
    prev,          \* the previous call, when it found the directory populated
    calls,         \* number of calls started, over all processes
    \* ---- env_manager: the call that last entered the with block
    seen,          \* what line 108 saw of expected_eplus_folder
    scriptFound,   \* what line 100 saw of script_path
    headCT,        \* content-type header of the HEAD response
    trace,         \* externally visible steps of the call, in order
    prompts,       \* text the installer had printed at each completed expect
    child,         \* the pexpect child: "none", "running", "closed"
    spawned,       \* an installer has been spawned in eplus_folder
    succeeded,     \* an installer run has terminated with status 0
    \* ---- utils.process_eplus_time_series
    csvDir,        \* working_dir: set of [name, content]
    csvTodo,       \* files the loop has not visited yet
    time_series,   \* the dict built by the loop: set of [key, value]
    csvWarned,     \* files a warning was emitted for
    csvKeyOf,      \* the name derived for each visited file: set of [file, key]
    csvStatus,     \* "running", "returned", "raised"
    \* ---- utils.process_eplus_html_report
    htmlDoc,       \* the document: sequence of nodes
    htmlPos,       \* index of the next node to visit
    reports,       \* the Box built by the loop: function key -> value
    htmlStatus     \* "running", "returned", "raised"

envVars == <<platform, folderExists, dir, dir0, cacheScript, holders, owner,
             pc, args, result, prev, calls, seen, scriptFound, headCT, trace,
             prompts, child, spawned, succeeded>>
csvVars == <<csvDir, csvTodo, time_series, csvWarned, csvKeyOf, csvStatus>>
htmlVars == <<htmlDoc, htmlPos, reports, htmlStatus>>
vars == <<envVars, csvVars, htmlVars>>

----------------------------------------------------------------------------
\* Bounds of the model
NumProcs == 2
MaxCalls == 2
MaxCsvFiles == 2
MaxNodes == 3

Procs == 1..NumProcs

----------------------------------------------------------------------------
\* Strings as sequences of characters

RECURSIVE Replace(_, _, _)
\* Python str.replace(old, new): every non-overlapping occurrence, left to right
Replace(s, old, new) ==
    IF Len(s) < Len(old) THEN s
    ELSE IF SubSeq(s, 1, Len(old)) = old
         THEN new \o Replace(SubSeq(s, Len(old) + 1, Len(s)), old, new)
         ELSE <<s[1]>> \o Replace(Tail(s), old, new)

\* Python's  sub in s
Contains(s, sub) ==
    \E i \in 1..(Len(s) - Len(sub) + 1) : SubSeq(s, i, i + Len(sub) - 1) = sub

UpperCase == <<"A", "B", "C", "D", "E", "F", "G", "H", "I", "J", "K", "L", "M",
               "N", "O", "P", "Q", "R", "S", "T", "U", "V", "W", "X", "Y", "Z">>
LowerCase == <<"a", "b", "c", "d", "e", "f", "g", "h", "i", "j", "k", "l", "m",
               "n", "o", "p", "q", "r", "s", "t", "u", "v", "w", "x", "y", "z">>

LowerOf == [c \in {UpperCase[i] : i \in 1..26} |->
               LowerCase[CHOOSE i \in 1..26 : UpperCase[i] = c]]

LowerChar(c) == IF c \in DOMAIN LowerOf THEN LowerOf[c] ELSE c

\* Python str.lower()
Lower(s) == [i \in 1..Len(s) |-> LowerChar(s[i])]

Range(s) == {s[i] : i \in 1..Len(s)}

----------------------------------------------------------------------------
\* env_manager.py

\* The url argument, by what eplus_filename_pattern makes of it
GoodUrl == [matches |-> TRUE,
            filename |-> "EnergyPlus-9.4.0-998c4b761e-Linux-Ubuntu18.04-x86_64.sh",
            version |-> <<"9", ".", "4", ".", "0">>]
BadUrl == [matches |-> FALSE, filename |-> "", version |-> <<>>]
Urls == {GoodUrl, BadUrl}

\* content-type headers a server may answer a HEAD request with
NoContentType == [present |-> FALSE, value |-> <<>>]
ContentType(v) == [present |-> TRUE, value |-> v]
ContentTypes ==
    { NoContentType,
      ContentType(<<"a", "p", "p", "l", "i", "c", "a", "t", "i", "o", "n", "/", "x", "-", "s", "h">>),
      ContentType(<<"t", "e", "x", "t", "/", "h", "t", "m", "l">>),
      ContentType(<<"T", "E", "X", "T", "/", "P", "L", "A", "I", "N">>),
      ContentType(<<"a", "p", "p", "l", "i", "c", "a", "t", "i", "o", "n", "/", "x", "h", "t", "m", "l", "+", "x", "m", "l">>) }

StrText == <<"t", "e", "x", "t">>
StrHtml == <<"h", "t", "m", "l">>

\* _is_downloadable without the test of line 29
IsDownloadableNoHtmlCheck(content_type) ==
    /\ content_type.present
    /\ ~Contains(Lower(content_type.value), StrText)

\* _is_downloadable, applied to the content-type header of the HEAD response
IsDownloadable(content_type) ==
    /\ content_type.present
    /\ ~Contains(Lower(content_type.value), StrText)
    /\ ~Contains(Lower(content_type.value), StrHtml)

\* eplus_folder as the caller gave it, and the working directory
EplusFolder == <<"data", "eplus">>
Cwd == <<"/", "home", "user">>

\* Path.absolute()
Absolute(path) ==
    [parent |-> IF path.parent # <<>> /\ path.parent[1] = "/"
                THEN path.parent ELSE Cwd \o path.parent,
     name |-> path.name]

StrEnergyPlusDash == <<"E", "n", "e", "r", "g", "y", "P", "l", "u", "s", "-">>

\* eplus_folder / f"EnergyPlus-{version.replace('.', '-')}"
ExpectedFolder(url) ==
    [parent |-> EplusFolder,
     name |-> StrEnergyPlusDash \o Replace(url.version, <<".">>, <<"-">>)]

\* Files the installer puts into the installation directory, in archive order
InstallFiles == <<"energyplus", "Energy+.idd">>
AbsentDir == [exists |-> FALSE, files |-> {}]
FullDir == [exists |-> TRUE, files |-> Range(InstallFiles)]
Dirs == {AbsentDir} \cup
        {[exists |-> TRUE, files |-> Range(SubSeq(InstallFiles, 1, n))] :
            n \in 0..Len(InstallFiles)}

\* Path.glob("*") returns a generator over the entries
Glob(d) == [type |-> "generator", items |-> d.files]

\* Python truth value: a generator object is true whatever it yields
Truthy(v) == IF v.type = "generator" THEN TRUE ELSE v.items # {}

\* line 108 with the test negated
FastPathInverted(d) == ~d.exists

\* line 108 without expected_eplus_folder.exists()
FastPathNoExistsCheck(d) == Truthy(Glob(d))

\* the condition of line 108
FastPath(d) == d.exists /\ Truthy(Glob(d))

Classify(d) == IF ~d.exists THEN "absent"
               ELSE IF d.files = {} THEN "empty" ELSE "populated"

\* an acquire that does not wait for the holder
LockAvailableAlways(h) == TRUE

\* fasteners.InterProcessLock: a blocking acquire succeeds when nobody holds it
LockAvailable(h) == h = {}

\* script_path.exists() of line 100
ScriptExists(present) == present

\* Text the installer may have printed when the n-th expect("\r\n") matches:
\* the prompt the script is written for, or something else
PromptTexts(n) == {IF n = 1 THEN "license" ELSE "symlink", "unexpected"}

\* A call that made no request and spawned nothing
Quiet(tr) == Range(tr) \cap {"HEAD", "GET", "SPAWN"} = {}

\* How a call ended: the exception raised or the path returned, with what the
\* call had seen of the installation directory and whether it was quiet
Outcome(st, path, sn, tr) ==
    [status |-> st, parent |-> path.parent, name |-> path.name,
     seen |-> sn, quiet |-> Quiet(tr)]
NoPath == [parent |-> <<>>, name |-> <<>>]
NoResult == Outcome("none", NoPath, "unchecked", <<>>)
NoArgs == [url |-> BadUrl, cache |-> FALSE]
NoCall == [args |-> NoArgs, result |-> NoResult]

\* Leaving ensure_eplus_root from inside the with block of line 97, by an
\* exception or a return: the lock is released and the call ends
Leave(p, st, path, sn, tr) ==
    /\ pc' = [pc EXCEPT ![p] = "done"]
    /\ result' = [result EXCEPT ![p] = Outcome(st, path, sn, tr)]
    /\ holders' = holders \ {p}

\* Leaving the with block of line 50: the child is closed
CloseChild == child' = "closed"

EnvInit ==
    /\ platform \in {"Linux", "Windows"}
    /\ dir \in Dirs
    /\ folderExists = dir.exists
    /\ dir0 = dir
    /\ cacheScript \in BOOLEAN
    /\ holders = {}
    /\ owner = 0
    /\ pc = [p \in Procs |-> "idle"]
    /\ args = [p \in Procs |-> NoArgs]
    /\ result = [p \in Procs |-> NoResult]
    /\ prev = [p \in Procs |-> NoCall]
    /\ calls = 0
    /\ seen = "unchecked"
    /\ scriptFound = FALSE
    /\ headCT = NoContentType
    /\ trace = <<>>
    /\ prompts = <<>>
    /\ child = "none"
    /\ spawned = FALSE
    /\ succeeded = FALSE

EnvIdle ==
    /\ platform = "Linux" /\ folderExists = FALSE /\ dir = AbsentDir
    /\ dir0 = AbsentDir /\ cacheScript = FALSE /\ holders = {} /\ owner = 0
    /\ pc = [p \in Procs |-> "idle"]
    /\ args = [p \in Procs |-> NoArgs]
    /\ result = [p \in Procs |-> NoResult]
    /\ prev = [p \in Procs |-> NoCall]
    /\ calls = 0
    /\ seen = "unchecked"
    /\ scriptFound = FALSE
    /\ headCT = NoContentType
    /\ trace = <<>>
    /\ prompts = <<>>
    /\ child = "none"
    /\ spawned = FALSE
    /\ succeeded = FALSE

\* ensure_eplus_root is called: lines 90-96, up to the blocking acquire
Call(p) ==
    /\ pc[p] \in {"idle", "done"}
    /\ calls < MaxCalls
    /\ \E u \in Urls, c \in BOOLEAN :
          args' = [args EXCEPT ![p] = [url |-> u, cache |-> c]]
    /\ calls' = calls + 1
    /\ prev' = [prev EXCEPT ![p] =
                  IF result[p].seen = "populated"
                  THEN [args |-> args[p], result |-> result[p]]
                  ELSE NoCall]
    /\ IF platform # "Linux"
       THEN /\ pc' = [pc EXCEPT ![p] = "done"]
            /\ result' = [result EXCEPT ![p] =
                            Outcome("ValueError_platform", NoPath, "unchecked", <<>>)]
            /\ UNCHANGED folderExists
       ELSE /\ pc' = [pc EXCEPT ![p] = "lock"]
            /\ result' = [result EXCEPT ![p] = NoResult]
            /\ folderExists' = TRUE
    /\ UNCHANGED <<platform, dir, dir0, cacheScript, holders, owner, seen,
                   scriptFound, headCT, trace, prompts, child, spawned, succeeded>>
    /\ UNCHANGED <<csvVars, htmlVars>>

\* line 97: entering the with block
Acquire(p) ==
    /\ pc[p] = "lock"
    /\ LockAvailable(holders)
    /\ holders' = holders \cup {p}
    /\ owner' = p
    /\ pc' = [pc EXCEPT ![p] = "check"]
    /\ seen' = "unchecked"
    /\ scriptFound' = FALSE
    /\ headCT' = NoContentType
    /\ trace' = <<>>
    /\ prompts' = <<>>
    /\ child' = "none"
    /\ UNCHANGED <<platform, folderExists, dir, dir0, cacheScript, args, result,
                   calls, prev, spawned, succeeded>>
    /\ UNCHANGED <<csvVars, htmlVars>>

\* lines 104-110
CheckInstalled(p) ==
    /\ pc[p] = "check"
    /\ IF ~args[p].url.matches
       THEN /\ Leave(p, "ValueError_pattern", NoPath, seen, trace)
            /\ UNCHANGED <<dir, seen, trace>>
       ELSE /\ seen' = Classify(dir)
            /\ IF FastPath(dir)
               THEN /\ Leave(p, "return", Absolute(ExpectedFolder(args[p].url)),
                             Classify(dir), trace)
                    /\ UNCHANGED <<dir, trace>>
               ELSE /\ dir' = AbsentDir
                    /\ trace' = Append(trace, "RMTREE")
                    /\ pc' = [pc EXCEPT ![p] = "locate"]
                    /\ UNCHANGED <<result, holders>>
    /\ UNCHANGED <<platform, folderExists, dir0, cacheScript, owner, args,
                   scriptFound, headCT, prompts, child, calls, prev, spawned,
                   succeeded>>
    /\ UNCHANGED <<csvVars, htmlVars>>

\* lines 111-117 and 100: the script path, and whether the script is there
LocateScript(p) ==
    /\ pc[p] = "locate"
    /\ LET found == IF args[p].cache THEN ScriptExists(cacheScript)
                    ELSE ScriptExists(FALSE)
       IN /\ scriptFound' = found
          /\ pc' = [pc EXCEPT ![p] = IF found THEN "spawn" ELSE "head"]
    /\ UNCHANGED <<platform, folderExists, dir, dir0, cacheScript, holders, owner,
                   args, seen, headCT, trace, prompts, child, result, calls, prev,
                   spawned, succeeded>>
    /\ UNCHANGED <<csvVars, htmlVars>>

\* lines 42-43 and 23: the HEAD request and the test of its content-type
HeadRequest(p) ==
    /\ pc[p] = "head"
    /\ trace' = Append(trace, "HEAD")
    /\ \/ /\ Leave(p, "RequestException", NoPath, seen, trace')
          /\ UNCHANGED headCT
       \/ \E h \in ContentTypes :
            /\ headCT' = h
            /\ IF IsDownloadable(h)
               THEN /\ pc' = [pc EXCEPT ![p] = "get"]
                    /\ UNCHANGED <<result, holders>>
               ELSE Leave(p, "ValueError_not_downloadable", NoPath, seen, trace')
    /\ UNCHANGED <<platform, folderExists, dir, dir0, cacheScript, owner, args,
                   seen, scriptFound, prompts, child, calls, prev, spawned,
                   succeeded>>
    /\ UNCHANGED <<csvVars, htmlVars>>

\* lines 44-46: the GET request and the write of its content to script_path
GetRequest(p) ==
    /\ pc[p] = "get"
    /\ \/ /\ trace' = Append(trace, "GET")
          /\ Leave(p, "RequestException", NoPath, seen, trace')
          /\ UNCHANGED cacheScript
       \/ /\ trace' = trace \o <<"GET", "WRITE">>
          /\ cacheScript' = (cacheScript \/ args[p].cache)
          /\ pc' = [pc EXCEPT ![p] = "spawn"]
          /\ UNCHANGED <<result, holders>>
    /\ UNCHANGED <<platform, folderExists, dir, dir0, owner, args, seen,
                   scriptFound, headCT, prompts, child, calls, prev, spawned,
                   succeeded>>
    /\ UNCHANGED <<csvVars, htmlVars>>

\* line 50: pexpect.spawn(f"bash {setup_script}")
Spawn(p) ==
    /\ pc[p] = "spawn"
    /\ child' = "running"
    /\ trace' = Append(trace, "SPAWN")
    /\ spawned' = TRUE
    /\ pc' = [pc EXCEPT ![p] = "expect1"]
    /\ UNCHANGED <<platform, folderExists, dir, dir0, cacheScript, holders, owner,
                   args, seen, scriptFound, headCT, prompts, result, calls, prev,
                   succeeded>>
    /\ UNCHANGED <<csvVars, htmlVars>>

\* child.expect("\r\n"): any line the child printed matches, whatever its text;
\* with no line the wait ends in pexpect.TIMEOUT, with a dead child in pexpect.EOF
ExpectLine(p, at, next) ==
    /\ pc[p] = at
    /\ \/ \E t \in PromptTexts(Len(prompts) + 1) :
            /\ prompts' = Append(prompts, t)
            /\ trace' = Append(trace, "EXPECT")
            /\ pc' = [pc EXCEPT ![p] = next]
            /\ UNCHANGED <<child, result, holders>>
       \/ \E e \in {"pexpect.TIMEOUT", "pexpect.EOF"} :
            /\ Leave(p, e, NoPath, seen, trace)
            /\ CloseChild
            /\ UNCHANGED <<prompts, trace>>
    /\ UNCHANGED <<platform, folderExists, dir, dir0, cacheScript, owner, args,
                   seen, scriptFound, headCT, calls, prev, spawned, succeeded>>
    /\ UNCHANGED <<csvVars, htmlVars>>

\* child.sendline(...)
SendLine(p, at, what, next) ==
    /\ pc[p] = at
    /\ trace' = Append(trace, what)
    /\ pc' = [pc EXCEPT ![p] = next]
    /\ UNCHANGED <<platform, folderExists, dir, dir0, cacheScript, holders, owner,
                   args, seen, scriptFound, headCT, prompts, child, result, calls,
                   prev, spawned, succeeded>>
    /\ UNCHANGED <<csvVars, htmlVars>>

\* line 52
Expect1(p) == ExpectLine(p, "expect1", "sendY")

\* line 54
SendY(p) == SendLine(p, "sendY", "SEND_y", "sendFolder")

\* line 56
SendFolder(p) == SendLine(p, "sendFolder", "SEND_folder", "expect2")

\* line 57
Expect2(p) == ExpectLine(p, "expect2", "sendN")

\* line 59
SendN(p) == SendLine(p, "sendN", "SEND_n", "expectEOF")

\* line 60, and the return of line 118: the exit status of the child is not
\* read. An installer exits with status 0 only when it has extracted every file
ExpectEOF(p) ==
    /\ pc[p] = "expectEOF"
    /\ \/ \E st \in {0, 1} :
            /\ st = 0 => dir = FullDir
            /\ succeeded' = (succeeded \/ st = 0)
            /\ trace' = Append(trace, "EXPECT_EOF")
            /\ Leave(p, "return", Absolute(ExpectedFolder(args[p].url)), seen, trace')
       \/ /\ Leave(p, "pexpect.TIMEOUT", NoPath, seen, trace)
          /\ UNCHANGED <<trace, succeeded>>
    /\ CloseChild
    /\ UNCHANGED <<platform, folderExists, dir, dir0, cacheScript, owner, args,
                   seen, scriptFound, headCT, prompts, calls, prev, spawned>>
    /\ UNCHANGED <<csvVars, htmlVars>>

\* The spawned installer, once it has been given its three answers, creates the
\* install directory and extracts its files into it, one at a time
InstallerExtract ==
    /\ child = "running"
    /\ {"SEND_y", "SEND_folder", "SEND_n"} \subseteq Range(trace)
    /\ dir # FullDir
    /\ IF ~dir.exists
       THEN dir' = [exists |-> TRUE, files |-> {}]
       ELSE dir' = [dir EXCEPT !.files = @ \cup {InstallFiles[Cardinality(@) + 1]}]
    /\ UNCHANGED <<platform, folderExists, dir0, cacheScript, holders, owner, pc,
                   args, seen, scriptFound, headCT, trace, prompts, child, result,
                   calls, prev, spawned, succeeded>>
    /\ UNCHANGED <<csvVars, htmlVars>>

----------------------------------------------------------------------------
\* utils.py: process_eplus_time_series

StrEplus == <<"e", "p", "l", "u", "s">>
StrEplusDash == <<"e", "p", "l", "u", "s", "-">>
StrDotCsv == <<".", "c", "s", "v">>

\* File names a working directory may hold
CsvFileNames ==
    { <<"e", "p", "l", "u", "s", ".", "c", "s", "v">>,
      <<"e", "p", "l", "u", "s", "-", "m", "e", "t", "e", "r", ".", "c", "s", "v">>,
      <<"m", "y", "-", "e", "p", "l", "u", "s", "-", "m", "e", "t", "e", "r", ".", "c", "s", "v">>,
      <<"m", "e", "t", "e", "r", ".", "c", "s", "v">>,
      <<"e", "p", "l", "u", "s", ".", "e", "r", "r">> }

\* File contents, as bytes:  "a,b\n1,2\n",  "",  "a,b\n1,2\n1,2,1,2\n",
\* b"\xff\xfe",  "a\n" followed by b"\xff"
CsvContents ==
    { <<97, 44, 98, 10, 49, 44, 50, 10>>,
      <<>>,
      <<97, 44, 98, 10, 49, 44, 50, 10, 49, 44, 50, 44, 49, 44, 50, 10>>,
      <<255, 254>>,
      <<97, 10, 255>> }

EndsWith(s, suffix) ==
    /\ Len(s) >= Len(suffix)
    /\ SubSeq(s, Len(s) - Len(suffix) + 1, Len(s)) = suffix

\* working_dir.files("*.csv"): fnmatch of the file name against *.csv
MatchesCsv(name) == EndsWith(name, StrDotCsv)

\* Path.stripext(), os.path.splitext: the last dot and what follows it are
\* removed, unless only dots precede it
StripExt(name) ==
    LET dots == {i \in 1..Len(name) : name[i] = "."}
        last == IF dots = {} THEN 0 ELSE CHOOSE i \in dots : \A j \in dots : j <= i
    IN IF last = 0 \/ (\A j \in 1..(last - 1) : name[j] = ".")
       THEN name
       ELSE SubSeq(name, 1, last - 1)

\* lines 74-76
DeriveName(filename) ==
    LET name == StripExt(filename)
    IN IF name # StrEplus THEN Replace(name, StrEplusDash, <<>>) ELSE name

\* The characters of the bytes the model uses
Chr(b) == CASE b = 10 -> "\n"
            [] b = 44 -> ","
            [] b = 49 -> "1"
            [] b = 50 -> "2"
            [] b = 97 -> "a"
            [] b = 98 -> "b"
            [] OTHER -> "?"

\* UTF-8, strict: a byte below 128 is a character; 0xFE and 0xFF are valid in
\* no position
Decodable(bytes) == \A i \in 1..Len(bytes) : bytes[i] < 128

Decode(bytes) == [i \in 1..Len(bytes) |-> Chr(bytes[i])]

RECURSIVE Split(_, _)
\* str.split(sep) for a one-character sep
Split(s, sep) ==
    IF \A i \in 1..Len(s) : s[i] # sep THEN <<s>>
    ELSE LET k == CHOOSE i \in 1..Len(s) :
                     s[i] = sep /\ \A j \in 1..(i - 1) : s[j] # sep
         IN <<SubSeq(s, 1, k - 1)>> \o Split(SubSeq(s, k + 1, Len(s)), sep)

\* The lines of a text, blank lines skipped, each split into its fields
CsvRecords(text) ==
    LET lines == SelectSeq(Split(text, "\n"), LAMBDA l : l # <<>>)
    IN [i \in 1..Len(lines) |-> Split(lines[i], ",")]

NoTable == [columns |-> <<>>, rows |-> <<>>]

\* pd.read_csv(csv_file): fails on bytes that are not UTF-8, on a file with no
\* columns, and on a data row with more fields than the row before it
ReadCsv(bytes) ==
    IF ~Decodable(bytes) THEN [ok |-> FALSE, table |-> NoTable]
    ELSE LET recs == CsvRecords(Decode(bytes))
         IN IF recs = <<>> THEN [ok |-> FALSE, table |-> NoTable]
            ELSE IF \E i \in 3..Len(recs) : Len(recs[i]) > Len(recs[i - 1])
                 THEN [ok |-> FALSE, table |-> NoTable]
                 ELSE [ok |-> TRUE,
                       table |-> [columns |-> recs[1], rows |-> Tail(recs)]]

\* open(csv_file).read(): text mode, so the bytes are decoded, as UTF-8
ReadText(bytes) ==
    IF Decodable(bytes) THEN [ok |-> TRUE, text |-> Decode(bytes)]
    ELSE [ok |-> FALSE, text |-> <<>>]

TableValue(t) == [kind |-> "table", table |-> t, text |-> <<>>]
TextValue(t) == [kind |-> "text", table |-> NoTable, text |-> t]

\* d[k] = v on a dict held as a function
DictSet(d, k, v) == [x \in DOMAIN d \cup {k} |-> IF x = k THEN v ELSE d[x]]
EmptyDict == [x \in {} |-> 0]

\* The directories of at most MaxCsvFiles files
CsvDirs ==
    UNION { { {[name |-> n, content |-> c[n]] : n \in names} :
                c \in [names -> CsvContents] } :
            names \in {x \in SUBSET CsvFileNames : Cardinality(x) <= MaxCsvFiles} }

CsvInit ==
    /\ csvDir \in CsvDirs
    /\ csvTodo = {f \in csvDir : MatchesCsv(f.name)}
    /\ time_series = EmptyDict
    /\ csvWarned = {}
    /\ csvKeyOf = {}
    /\ csvStatus = "running"

CsvIdle ==
    /\ csvDir = {}
    /\ csvTodo = {}
    /\ time_series = EmptyDict
    /\ csvWarned = {}
    /\ csvKeyOf = {}
    /\ csvStatus = "returned"

\* One iteration of the loop of lines 73-85, on any file not yet visited
CsvVisit ==
    /\ csvStatus = "running"
    /\ \E f \in csvTodo :
         LET name == DeriveName(f.name)
             parsed == ReadCsv(f.content)
             raw == ReadText(f.content)
         IN /\ csvTodo' = csvTodo \ {f}
            /\ csvKeyOf' = csvKeyOf \cup {[file |-> f.name, key |-> name]}
            /\ IF parsed.ok
               THEN /\ time_series' = DictSet(time_series, name, TableValue(parsed.table))
                    /\ UNCHANGED <<csvWarned, csvStatus>>
               ELSE /\ csvWarned' = csvWarned \cup {f.name}
                    /\ IF raw.ok
                       THEN /\ time_series' = DictSet(time_series, name, TextValue(raw.text))
                            /\ UNCHANGED csvStatus
                       ELSE /\ csvStatus' = "raised"
                            /\ UNCHANGED time_series
    /\ UNCHANGED csvDir
    /\ UNCHANGED <<envVars, htmlVars>>

\* line 86
CsvReturn ==
    /\ csvStatus = "running"
    /\ csvTodo = {}
    /\ csvStatus' = "returned"
    /\ UNCHANGED <<csvDir, csvTodo, time_series, csvWarned, csvKeyOf>>
    /\ UNCHANGED <<envVars, htmlVars>>

----------------------------------------------------------------------------
\* utils.py: process_eplus_html_report

StrBuildingArea == <<"B", "u", "i", "l", "d", "i", "n", "g", " ", "A", "r", "e", "a">>
StrZone == <<"Z", "o", "n", "e">>
StrSection == <<" ", "A", "n", "n", "u", "a", "l", " ">>

\* The nodes of a report, in document order:
\*   report: <p>Report:<b>text</b></p>, or the bare text Report: when hasB is false
\*   b:      <b>text</b>, a sibling of the tables
\*   table:  <table>, its data rows each "data" or "blank" (all cells empty)
NoRows == <<>>
ReportNode(t) == [type |-> "report", hasB |-> TRUE, text |-> t, id |-> "", rows |-> NoRows]
BareReportNode == [type |-> "report", hasB |-> FALSE, text |-> <<>>, id |-> "", rows |-> NoRows]
BoldNode(t) == [type |-> "b", hasB |-> FALSE, text |-> t, id |-> "", rows |-> NoRows]
TableNode(i, r) == [type |-> "table", hasB |-> FALSE, text |-> <<>>, id |-> i, rows |-> r]

HtmlNodes ==
    { ReportNode(StrSection), BareReportNode,
      BoldNode(StrBuildingArea), BoldNode(StrZone),
      TableNode("A", <<"data">>), TableNode("B", <<"data", "blank">>),
      TableNode("C", NoRows) }

HtmlDocs == UNION {[1..n -> HtmlNodes] : n \in 0..MaxNodes}

RECURSIVE Strip(_)
\* str.strip()
Strip(s) ==
    IF s = <<>> THEN s
    ELSE IF s[1] = " " THEN Strip(Tail(s))
    ELSE IF s[Len(s)] = " " THEN Strip(SubSeq(s, 1, Len(s) - 1))
    ELSE s

\* The key None of the Box
NoneKey == <<"None">>

\* The nearest node of a type before position i, 0 when there is none
Previous(doc, i, type) ==
    LET before == {j \in 1..(i - 1) : doc[j].type = type}
    IN IF before = {} THEN 0 ELSE CHOOSE j \in before : \A k \in before : k <= j

\* lines 28-35: the section of the table at position i
SectionOf(doc, i) ==
    LET r == Previous(doc, i, "report")
    IN IF r = 0 THEN NoneKey
       ELSE IF ~doc[r].hasB THEN NoneKey
       ELSE Strip(doc[r].text)

\* line 36: the title of the table at position i; find_previous_sibling("b")
\* is None when no <b> precedes the table, and get_text() then raises
TitleOf(doc, i) ==
    LET b == Previous(doc, i, "b")
    IN IF b = 0 THEN [ok |-> FALSE, title |-> <<>>]
       ELSE [ok |-> TRUE, title |-> doc[b].text]

\* lines 37-39: pd.read_html(...)[0].dropna(how="all"); read_html raises on a
\* table with no rows
ReadHtml(node) ==
    IF node.rows = NoRows THEN [ok |-> FALSE, df |-> [id |-> node.id, rows |-> NoRows]]
    ELSE [ok |-> TRUE,
          df |-> [id |-> node.id,
                  rows |-> SelectSeq(node.rows, LAMBDA r : r # "blank")]]

BoxListValue(items) == [kind |-> "list", items |-> items, map |-> EmptyDict]
BoxValue(m) == [kind |-> "box", items |-> <<>>, map |-> m]

\* The first table at or after position i, 0 when there is none
NextTable(doc, i) ==
    LET after == {j \in i..Len(doc) : doc[j].type = "table"}
    IN IF after = {} THEN 0 ELSE CHOOSE j \in after : \A k \in after : j <= k

HtmlInit ==
    /\ htmlDoc \in HtmlDocs
    /\ htmlPos = 1
    /\ reports = EmptyDict
    /\ htmlStatus = "running"

HtmlIdle ==
    /\ htmlDoc = <<>>
    /\ htmlPos = 1
    /\ reports = EmptyDict
    /\ htmlStatus = "returned"

\* One iteration of the loop of lines 53-57, on the next table of the document
HtmlVisit ==
    /\ htmlStatus = "running"
    /\ NextTable(htmlDoc, htmlPos) # 0
    /\ LET i == NextTable(htmlDoc, htmlPos)
           section == SectionOf(htmlDoc, i)
           t == TitleOf(htmlDoc, i)
           read == ReadHtml(htmlDoc[i])
       IN /\ htmlPos' = i + 1
          /\ IF ~t.ok \/ ~read.ok
             THEN /\ htmlStatus' = "raised"
                  /\ UNCHANGED reports
             ELSE IF section = NoneKey /\ t.title \notin DOMAIN reports
             THEN /\ reports' = DictSet(reports, t.title, BoxListValue(<<>>))
                  /\ UNCHANGED htmlStatus
             ELSE IF section \in DOMAIN reports /\ reports[section].kind = "list"
             THEN \* BoxList[title] = df: a list index must be an integer
                  /\ htmlStatus' = "raised"
                  /\ UNCHANGED reports
             ELSE /\ reports' =
                        DictSet(reports, section,
                                BoxValue(DictSet(IF section \in DOMAIN reports
                                                 THEN reports[section].map
                                                 ELSE EmptyDict,
                                                 t.title, read.df)))
                  /\ UNCHANGED htmlStatus
    /\ UNCHANGED htmlDoc
    /\ UNCHANGED <<envVars, csvVars>>

\* line 58
HtmlReturn ==
    /\ htmlStatus = "running"
    /\ NextTable(htmlDoc, htmlPos) = 0
    /\ htmlStatus' = "returned"
    /\ UNCHANGED <<htmlDoc, htmlPos, reports>>
    /\ UNCHANGED <<envVars, csvVars>>

----------------------------------------------------------------------------
\* The specifications

Init == EnvInit /\ CsvIdle /\ HtmlIdle

ProcNext ==
    \E p \in Procs :
        \/ Call(p)
        \/ Acquire(p)
        \/ CheckInstalled(p)
        \/ LocateScript(p)
        \/ HeadRequest(p)
        \/ GetRequest(p)
        \/ Spawn(p)
        \/ Expect1(p)
        \/ SendY(p)
        \/ SendFolder(p)
        \/ Expect2(p)
        \/ SendN(p)
        \/ ExpectEOF(p)

Next == ProcNext \/ InstallerExtract

Spec == Init /\ [][Next]_vars

InitCsv == EnvIdle /\ CsvInit /\ HtmlIdle

NextCsv == CsvVisit \/ CsvReturn

SpecCsv == InitCsv /\ [][NextCsv]_vars

InitHtml == EnvIdle /\ CsvIdle /\ HtmlInit

NextHtml == HtmlVisit \/ HtmlReturn

SpecHtml == InitHtml /\ [][NextHtml]_vars

----------------------------------------------------------------------------
\* Properties of ensure_eplus_root (checked under Spec)

Done(p) == pc[p] = "done"
Returned(p) == Done(p) /\ result[p].status = "return"
\* p is the process whose call the observations seen, trace, ... belong to
Observed(p) == owner = p /\ pc[p] \notin {"idle", "lock"}
Events == Range(trace)

\* <target_folder>/EnergyPlus-<version-with-dashes>, absolute, for version 9.4.0
InstallationPath ==
    [parent |-> <<"/", "home", "user", "data", "eplus">>,
     name |-> <<"E", "n", "e", "r", "g", "y", "P", "l", "u", "s", "-", "9", "-", "4", "-", "0">>]

PathOf(r) == [parent |-> r.parent, name |-> r.name]

\* C1: when a call finds the installation directory populated, that call and the
\* next call of the same process with the same arguments issue no HEAD or GET
\* request and spawn no installer, and both return the same absolute path, that
\* of <target_folder>/EnergyPlus-<version-with-dashes>.
C1_PopulatedIsIdempotent ==
    \A p \in Procs :
        (prev[p].result.seen = "populated" /\ prev[p].args = args[p]) =>
            /\ prev[p].result.quiet
            /\ prev[p].result.status = "return"
            /\ PathOf(prev[p].result) = InstallationPath
            /\ Observed(p) => Quiet(trace)
            /\ Done(p) =>
                  /\ result[p].quiet
                  /\ result[p].status = "return"
                  /\ PathOf(result[p]) = PathOf(prev[p].result)

C1_Witness ==
    \E p \in Procs :
        /\ dir0.exists /\ dir0.files # {}
        /\ prev[p].result.seen = "populated" /\ prev[p].args = args[p]
        /\ Returned(p)

\* The positions of ensure_eplus_root inside the with block of the lock
CriticalPcs == {"check", "locate", "head", "get", "spawn", "expect1", "sendY",
                "sendFolder", "expect2", "sendN", "expectEOF"}

\* C2: at most one process at a time is between the existence check and the end
\* of the installer run, and a process that is there holds the lock.
C2_MutualExclusion ==
    /\ \A p \in Procs : pc[p] \in CriticalPcs => p \in holders
    /\ \A p, q \in Procs : (pc[p] \in CriticalPcs /\ pc[q] \in CriticalPcs) => p = q

C2_Witness ==
    \E p, q \in Procs :
        /\ p # q
        /\ pc[p] \in {"head", "get", "expect2", "expectEOF"}
        /\ pc[q] = "lock"

\* The failures pexpect reports, which the specification calls InstallScriptError
InstallScriptErrors == {"pexpect.TIMEOUT", "pexpect.EOF"}

\* The response the script sends after its n-th wait for a prompt
ResponseAfter(n) == IF n = 1 THEN "SEND_y" ELSE "SEND_n"

\* C3: once the installer has printed unexpected text at a prompt, the response
\* to that prompt is not sent, no installation path is returned, and the call
\* ends with InstallScriptError.
C3_DeviationFails ==
    \A p \in Procs : \A i \in 1..Len(prompts) :
        (Observed(p) /\ prompts[i] = "unexpected") =>
            /\ ResponseAfter(i) \notin Events
            /\ result[p].status # "return"
            /\ Done(p) => result[p].status \in InstallScriptErrors

\* C7: a call returns without request and without installer run only when it
\* found the directory non-empty; when it found the directory existing but
\* empty, it removes it and goes on to obtain and run the installer.
C7_FastPathOnlyWhenNonEmpty ==
    \A p \in Procs :
        /\ (Returned(p) /\ result[p].quiet) => result[p].seen = "populated"
        /\ (Observed(p) /\ seen = "empty") => "RMTREE" \in Events

SessionEvents == {"SPAWN", "EXPECT", "SEND_y", "SEND_folder", "SEND_n", "EXPECT_EOF"}
Session == SelectSeq(trace, LAMBDA e : e \in SessionEvents)
ScriptedOrder == <<"SPAWN", "EXPECT", "SEND_y", "EXPECT", "SEND_folder",
                   "EXPECT", "SEND_n", "EXPECT_EOF">>

\* C8: the events of the scripted install occur in the order spawn, wait, send
\* "y", wait, send the folder, wait, send "n", wait for termination.
C8_ScriptedOrder ==
    /\ Len(Session) <= Len(ScriptedOrder)
    /\ Session = SubSeq(ScriptedOrder, 1, Len(Session))

FirstIndex(tr, e) == CHOOSE i \in 1..Len(tr) : tr[i] = e /\ \A j \in 1..(i - 1) : tr[j] # e

\* A content-type that marks a text or html page, or no content-type at all
LooksLikePage(ct) ==
    \/ ~ct.present
    \/ Contains(Lower(ct.value), StrText)
    \/ Contains(Lower(ct.value), StrHtml)

\* C9: a GET is issued only after a HEAD whose content-type contains neither
\* "text" nor "html"; a call whose HEAD response fails that test ends with
\* NotDownloadable, with no GET, no file written and no installer spawned; a
\* call that finds the script in the cache issues neither HEAD nor GET.
C9_HeadBeforeGet ==
    \A p \in Procs :
        Observed(p) =>
            /\ "GET" \in Events =>
                  /\ "HEAD" \in Events
                  /\ FirstIndex(trace, "HEAD") < FirstIndex(trace, "GET")
                  /\ headCT.present
                  /\ ~Contains(headCT.value, StrText)
                  /\ ~Contains(headCT.value, StrHtml)
                  /\ ~LooksLikePage(headCT)
            /\ ( /\ Done(p) /\ "HEAD" \in Events
                 /\ result[p].status # "RequestException"
                 /\ LooksLikePage(headCT) ) =>
                  result[p].status = "ValueError_not_downloadable"
            /\ result[p].status = "ValueError_not_downloadable" =>
                  Events \cap {"GET", "WRITE", "SPAWN"} = {}
            /\ scriptFound => Events \cap {"HEAD", "GET"} = {}

C9_Witness ==
    \E p \in Procs :
        /\ Observed(p)
        /\ result[p].status = "ValueError_not_downloadable"
        /\ Contains(headCT.value, StrHtml)
        /\ ~Contains(Lower(headCT.value), StrText)
        /\ args[p].cache /\ ~cacheScript

\* C10 as stated: from a target folder with no installation directory, a call
\* returns an installation path only if an installer run has terminated
\* successfully, in that call or an earlier one.
C10_ReturnOnlyAfterSuccess ==
    dir0 = AbsentDir => \A p \in Procs : Returned(p) => succeeded

\* C10 as amended: from a target folder with no installation directory, a call
\* returns an installation path only if an installer has been spawned in the
\* target folder, in that call or an earlier one, and the call either found the
\* installation directory present or waited for its installer to reach the end
\* of its output.
C10_ReturnOnlyAfterInstallerRun ==
    dir0 = AbsentDir =>
        \A p \in Procs :
            Returned(p) =>
                /\ spawned
                /\ Observed(p) =>
                      \/ seen \in {"empty", "populated"}
                      \/ "EXPECT_EOF" \in Events

C10_Witness ==
    /\ dir0 = AbsentDir
    /\ ~succeeded
    /\ \E p \in Procs :
          Returned(p) /\ result[p].seen = "populated" /\ result[p].quiet

----------------------------------------------------------------------------
\* Properties of process_eplus_time_series (checked under SpecCsv)

\* The name the claim gives a file: the file name without its .csv extension,
\* less a leading "eplus-" unless the name is "eplus"
PrefixStripped(filename) ==
    LET name == SubSeq(filename, 1, Len(filename) - Len(StrDotCsv))
    IN IF name # StrEplus /\ Len(name) >= Len(StrEplusDash)
          /\ SubSeq(name, 1, Len(StrEplusDash)) = StrEplusDash
       THEN SubSeq(name, Len(StrEplusDash) + 1, Len(name))
       ELSE name

\* C4: the call never raises, and when it has returned, every *.csv file has an
\* entry under its derived name: the parsed table when the parse succeeds,
\* otherwise the raw text, a warning having been emitted for the file.
C4_NeverFails ==
    /\ csvStatus # "raised"
    /\ csvStatus = "returned" =>
          \A f \in {g \in csvDir : MatchesCsv(g.name)} :
              LET key == DeriveName(f.name)
                  parsed == ReadCsv(f.content)
              IN /\ key \in DOMAIN time_series
                 /\ IF parsed.ok
                    THEN time_series[key] = TableValue(parsed.table)
                    ELSE /\ time_series[key] = TextValue(Decode(f.content))
                         /\ f.name \in csvWarned

\* C6: the name derived for a file is the file name without extension, less a
\* leading "eplus-" only: an "eplus-" elsewhere in the name is kept.
C6_OnlyPrefixStripped ==
    \A e \in csvKeyOf : e.key = PrefixStripped(e.file)

----------------------------------------------------------------------------
\* Properties of process_eplus_html_report (checked under SpecHtml)

\* The converted tables of the document that carry a title, in document order
TablesTitled(doc, title) ==
    LET positions == SelectSeq([i \in 1..Len(doc) |-> i],
                               LAMBDA i : /\ doc[i].type = "table"
                                          /\ TitleOf(doc, i).ok
                                          /\ TitleOf(doc, i).title = title)
    IN [k \in 1..Len(positions) |-> ReadHtml(doc[positions[k]]).df]

TableTitles(doc) ==
    {TitleOf(doc, i).title : i \in {j \in 1..Len(doc) : doc[j].type = "table"}}

\* C5: for a report without "Report:" marker, the result maps each title, at the
\* top level, to the sequence of the tables carrying that title, in document
\* order.
C5_TopLevelSequences ==
    ( /\ htmlStatus = "returned"
      /\ \A i \in 1..Len(htmlDoc) : htmlDoc[i].type # "report" ) =>
        \A title \in TableTitles(htmlDoc) :
            /\ title \in DOMAIN reports
            /\ reports[title].kind = "list"
            /\ reports[title].items = TablesTitled(htmlDoc, title)

====
